---- MODULE Spec2Model ----
(***************************************************************************)
(* The call-centre backend: the in-memory call registry, the REST call     *)
(* handlers of server.js in its two generations (the Map-registry server,  *)
(* lines 1-488, and the array-registry server, lines 489-851), the inbound *)
(* voice webhook router, saveCallLog, and the billing side (the Stripe     *)
(* webhook, saveSubscriptionToDb and POST /add-subscription).              *)
(*                                                                         *)
(* The registry is callLogsMap in the Map server and the array callLogs,   *)
(* published as global.callLogs, in the array server.  It is kept here as  *)
(* one sequence of call objects: in insertion order for the Map, newest    *)
(* first for the array.  Every handler runs to its next await in one step; *)
(* a handler waiting at an await sits in a slot of `pending` until the     *)
(* provider call or the query it waits for returns.                        *)
(*                                                                         *)
(* db/callLogs.js exists in two versions: the first rethrows a failed      *)
(* query (unnamed/part_005), the second logs it and returns                *)
(* (unnamed/part_006).  Init runs server.js with the second, InitFirst     *)
(* runs the first server.js with the first.  An async handler that throws  *)
(* outside its try blocks leaves a rejected promise; what becomes of it    *)
(* (reported only, the process ends, or the error handler answers) is a    *)
(* choice among Rejections.                                                *)
(***************************************************************************)
EXTENDS Integers, Sequences, FiniteSets, TLC

VARIABLES
    version,        \* which server.js runs: "map" (1-488) or "array" (489-851)
    dbVersion,      \* which db/callLogs.js is loaded: the first one, whose
                    \* saveCallLog throws a failed query on, or the second
    up,             \* the server process is running
    callLogs,       \* the call registry
    activeCalls,    \* let activeCalls (server.js:121, :626)
    call_logs,      \* rows of the call_logs table
    subscriptions,  \* rows of the subscriptions table
    pending,        \* handlers suspended at an await, by slot
    now,            \* Date.now(), in seconds
    fx,             \* what the last handler step did (response, command, writes)
    disturbed,      \* history: call ids whose saveCallLog overlapped or failed
    scenario,       \* history: progress of the place / webhook / end scenario
    requests,       \* history: how many requests the server has received
    delivered,      \* history: per Stripe event id, the deliveries answered
    processed       \* history: Stripe event ids that saveSubscriptionToDb has stored

vars == <<version, dbVersion, up, callLogs, activeCalls, call_logs, subscriptions,
          pending, now, fx, disturbed, scenario, requests, delivered, processed>>

\* what is fixed when the process starts, and whether it still runs
server == <<version, dbVersion, up>>

callVars == <<server, callLogs, activeCalls, call_logs, now, disturbed, scenario>>

billVars == <<subscriptions, delivered, processed>>

----------------------------------------------------------------------------
(* Bounds and input sets *)

MaxTime == 1
MaxInFlight == 2
MaxRequests == 3

CallIds == {"c1", "c2"}
NoId == "-"
Slots == 1..MaxInFlight

\* req.user of the authenticated callers: the role is the one the users table
\* holds, in whatever case it was written; a role is the sequence of its
\* characters
Callers == { [email |-> "a", role |-> <<"u", "s", "e", "r">>],
             [email |-> "b", role |-> <<"A", "d", "M", "i", "n">>] }
\* a request without a session: req.user is undefined
NoCaller == [email |-> "-", role |-> <<>>]
UnknownEmail == "N/A"
\* the requests the first server.js serves: its call routes have no
\* isAuthenticated
CallersFirst == Callers \cup {NoCaller}

\* req.user ? req.user.email : "N/A"
UserEmail(u) == IF u = NoCaller THEN UnknownEmail ELSE u.email

Terminal == {"completed", "ended"}
\* what a start response may carry in data.status (NoStatus: the field is absent)
NoStatus == ""
StartStatuses == {NoStatus, "ringing", "ongoing"}
\* what a webhook event may carry in call.status
HookStatuses == {"ringing", "ongoing", "ended"}
\* and in call.direction
HookDirections == {"inbound"}
\* createdAt of a webhook event or of the answer to a place-call: a time, or
\* NoTime when the field is absent
NoTime == -1
CreatedAts == {NoTime, 0}
\* duration of a call report (0 also when it is absent)
Durations == {0, 2}

\* the two versions of db/callLogs.js
DbVersions == {"first", "second"}

\* what becomes of the rejected promise of an async handler that threw: the
\* rejection is only reported, or Node ends the process (the default since
\* Node 15), or Express 5 hands it to the error handler of server.js
Rejections == {"reported", "exit", "errorHandler"}

\* Stripe event ids and customer emails
EventIds == {"evt1", "evt2"}
Emails == {"a", "b"}
\* customer.number of a call report: absent, the phone of user a, a phone no
\* user has
NoPhone == "-"
Phones == {NoPhone, "phone-a", "phone-x"}
\* type of the call of a call report (NoType: the field is absent)
NoType == "-"
ReportTypes == {"inboundPhoneCall", "outboundPhoneCall", NoType}

----------------------------------------------------------------------------
(* Records *)

\* a call object; controlUrl: whether it has monitor.controlUrl
NoCall == [id |-> NoId, direction |-> "-", status |-> "-", user_email |-> "-",
           controlUrl |-> FALSE, startTime |-> 0, duration |-> 0]

\* the callData handed to saveCallLog, and a row of call_logs
NoData == [call_id |-> NoId, user_email |-> "-", direction |-> "-",
           status |-> "-", duration |-> 0]

\* a suspended handler: which one (kind), the await it waits at (pc), req.user
\* (by), the call id, the call object it holds (pos: its place in the registry;
\* call: its contents once the registry no longer holds it; mates: the handlers
\* that held the same object when the registry let go of it), the callData of
\* its saveCallLog (data), the billing event id and email, (history) whether
\* the event id had been stored before this delivery arrived (late), and the
\* call report it handles (report)
NoReport == [call |-> NoId, status |-> "-", duration |-> 0, ctype |-> NoType,
             phone |-> NoPhone]

Idle == [kind |-> "idle", pc |-> "-", by |-> NoCaller, id |-> NoId, pos |-> 0,
         call |-> NoCall, mates |-> {}, data |-> NoData, ev |-> NoId, mail |-> "-",
         late |-> FALSE, report |-> NoReport]

\* the last step: handler h at its step, the HTTP status it answered (0: none
\* yet), the provider command it issued, the saveCallLog calls it made, the
\* callUpdate broadcasts it sent, and what the call it had awaited returned
\* (got: "ok", "failed", or the status in the provider's answer to a place-call),
\* and the record of its callUpdate broadcast (sent)
Fx(h, step, id, by, http, cmd, save, emit) ==
    [h |-> h, step |-> step, id |-> id, by |-> by, http |-> http, cmd |-> cmd,
     save |-> save, emit |-> emit, got |-> "-", sent |-> NoCall]

Got(ok) == IF ok THEN "ok" ELSE "failed"

NoFx == Fx("-", "-", NoId, "-", 0, "none", 0, 0)

\* a broadcast that leaves the record out
NotifyClientsBlank(call) == NoCall

\* notifyClients(call): io.emit("callUpdate", call), the record as it is
NotifyClients(call) == call

\* the step f, having broadcast the call
Sent(f, call) == [f EXCEPT !.sent = NotifyClients(call)]

----------------------------------------------------------------------------
(* The registry *)

Indices(logs, id) == { k \in 1..Len(logs) : logs[k].id = id }

Min(S) == CHOOSE x \in S : \A y \in S : x <= y

\* findIndex(c => c.id === id) + 1, 0 when there is none
FindIndex(logs, id) == IF Indices(logs, id) = {} THEN 0 ELSE Min(Indices(logs, id))

\* callLogsMap.get(id) / callLogs.find(c => c.id === id): NoCall when absent
Find(logs, id) == IF FindIndex(logs, id) = 0 THEN NoCall ELSE logs[FindIndex(logs, id)]

\* filter(call => call.status === "ongoing").length
CountOngoing(logs) == Cardinality({ k \in 1..Len(logs) : logs[k].status = "ongoing" })

\* the call object a suspended handler holds
Held(p) == IF p.pos > 0 THEN callLogs[p.pos] ELSE p.call

\* callLogs.unshift(call): the objects handlers hold move one place down
Shifted(pend) ==
    [s \in Slots |-> IF pend[s].pos > 0 THEN [pend[s] EXCEPT !.pos = @ + 1] ELSE pend[s]]

\* callLogs[k] = newCall: the handlers that hold the old object keep it, one
\* object between them
Detached(pend, k) ==
    LET holders == { s \in Slots : pend[s].pos = k /\ k > 0 }
    IN [s \in Slots |->
           IF s \in holders
           THEN [pend[s] EXCEPT !.pos = 0, !.call = callLogs[k], !.mates = holders]
           ELSE pend[s]]

\* the other handlers that hold the object the handler of slot s holds outside
\* the registry
Mates(pend, s) ==
    { t \in Slots \ {s} : /\ pend[s].pos = 0 /\ pend[t].pos = 0
                           /\ t \in pend[s].mates /\ s \in pend[t].mates }

\* ids the provider has already given to a call
UsedIds == { callLogs[k].id : k \in 1..Len(callLogs) }
              \cup { pending[s].id : s \in { t \in Slots : pending[t].kind = "start" } }

FreeSlots == { s \in Slots : pending[s].kind = "idle" }
FreeSlot == Min(FreeSlots)

\* the letters, upper case and lower case
UpperCase == <<"A", "B", "C", "D", "E", "F", "G", "H", "I", "J", "K", "L", "M",
               "N", "O", "P", "Q", "R", "S", "T", "U", "V", "W", "X", "Y", "Z">>
LowerCase == <<"a", "b", "c", "d", "e", "f", "g", "h", "i", "j", "k", "l", "m",
               "n", "o", "p", "q", "r", "s", "t", "u", "v", "w", "x", "y", "z">>

\* one character in lower case
ToLowerChar(c) ==
    IF \E i \in 1..Len(UpperCase) : UpperCase[i] = c
    THEN LowerCase[CHOOSE i \in 1..Len(UpperCase) : UpperCase[i] = c]
    ELSE c

\* role.toLowerCase(): every character in lower case
ToLowerCase(role) == [i \in 1..Len(role) |-> ToLowerChar(role[i])]

\* const userRole = req.user.role || 'user'
UserRole(u) == IF u.role = <<>> THEN <<"u", "s", "e", "r">> ELSE u.role

\* userRole.toLowerCase() === 'admin'
IsAdmin(u) == ToLowerCase(UserRole(u)) = <<"a", "d", "m", "i", "n">>

\* the saveCallLog calls in flight for a call id
Saving(id) == { s \in Slots : pending[s].pc \in {"update", "insert"} /\ pending[s].id = id }

Rows(id) == { k \in 1..Len(call_logs) : call_logs[k].call_id = id }

\* history of the scenario "owner places a call, a webhook for its id reports
\* ongoing with a control handle, the owner asks to end": it follows the first
\* call placed, and any other event on that call id voids it
NoScenario == [st |-> "none", id |-> NoId, by |-> "-"]

ScenarioNext(sc, ev, id, email) ==
    IF sc.st = "none"
    THEN IF ev = "placed" THEN [st |-> "placed", id |-> id, by |-> email] ELSE sc
    ELSE IF id # sc.id \/ ev = "save" THEN sc
    ELSE IF ev = "hooked" /\ sc.st = "placed" THEN [sc EXCEPT !.st = "hooked"]
    ELSE IF ev = "endSuspended" /\ sc.st = "hooked" /\ sc.by = email
         THEN [sc EXCEPT !.st = "ending"]
    ELSE IF ev = "endFailed" /\ sc.st = "ending" THEN sc
    ELSE IF ev = "endAnswered" /\ ((sc.st = "hooked" /\ sc.by = email) \/ sc.st = "ending")
         THEN [sc EXCEPT !.st = "done"]
    ELSE [sc EXCEPT !.st = "void"]

Track(ev, id, email) == ScenarioNext(scenario, ev, id, email)

\* the server receives one more request
Accept ==
    /\ up = TRUE
    /\ requests < MaxRequests
    /\ requests' = requests + 1

----------------------------------------------------------------------------
(* saveCallLog (db/callLogs.js) *)

\* UPDATE call_logs SET ... WHERE call_id = ?
UpdateRows(rows, d) ==
    [k \in 1..Len(rows) |-> IF rows[k].call_id = d.call_id THEN d ELSE rows[k]]

\* affectedRows counting the rows the UPDATE changed instead of those it matched
AffectedRowsChanged(rows, d) ==
    Cardinality({ k \in 1..Len(rows) : rows[k].call_id = d.call_id /\ rows[k] # d })

\* updateResult.affectedRows
AffectedRows(rows, d) == Cardinality({ k \in 1..Len(rows) : rows[k].call_id = d.call_id })

\* INSERT INTO call_logs ...
InsertRow(rows, d) == Append(rows, d)

\* a saveCallLog call starts while another one for the same call id is in flight
Overlaps(id) == IF Saving(id) # {} THEN {id} ELSE {}

\* what the handler answers once its saveCallLog is over.  The second
\* db/callLogs.js logs a failed query and returns; the first one throws it on:
\* the webhooks and the end of the array server catch it and answer as if it
\* had succeeded, the end of the Map server and of the first server answer 500
SaveAnswer(kind, ok) ==
    IF ~ok /\ dbVersion = "first" /\ kind = "end" /\ version \in {"map", "first"}
    THEN 500 ELSE 200

\* the UPDATE returns; no row matched leads to the INSERT, otherwise saveCallLog
\* is over and the handler answers.  mysql2 refuses an undefined parameter, so
\* the UPDATE of a callData without call_id fails.  A statement left in flight
\* by a process that has ended (kind "query") has nobody to return to.
SaveUpdateReturn(s, ok) ==
    /\ UNCHANGED requests
    /\ pending[s].pc = "update"
    /\ pending[s].data.call_id = NoId => ~ok
    /\ LET p == pending[s]
           hit == ok /\ AffectedRows(call_logs, p.data) # 0
           done == ~ok \/ hit \/ p.kind = "query"
       IN /\ call_logs' = IF ok THEN UpdateRows(call_logs, p.data) ELSE call_logs
          /\ disturbed' = IF ok THEN disturbed ELSE disturbed \cup {p.id}
          /\ pending' = [pending EXCEPT ![s] = IF done THEN Idle ELSE [p EXCEPT !.pc = "insert"]]
          /\ fx' = [Fx(p.kind, "update", p.id, p.by.email,
                       IF done /\ p.kind # "query" THEN SaveAnswer(p.kind, ok) ELSE 0,
                       "none", 0, 0) EXCEPT !.got = Got(ok)]
          /\ scenario' = Track(IF p.kind # "end" \/ ~done THEN "save" ELSE "endAnswered",
                               p.id, p.by.email)
    /\ UNCHANGED <<server, callLogs, activeCalls, billVars, now>>

\* the INSERT returns
SaveInsertReturn(s, ok) ==
    /\ UNCHANGED requests
    /\ pending[s].pc = "insert"
    /\ LET p == pending[s]
       IN /\ call_logs' = IF ok THEN InsertRow(call_logs, p.data) ELSE call_logs
          /\ disturbed' = IF ok THEN disturbed ELSE disturbed \cup {p.id}
          /\ pending' = [pending EXCEPT ![s] = Idle]
          /\ fx' = [Fx(p.kind, "insert", p.id, p.by.email,
                       IF p.kind # "query" THEN SaveAnswer(p.kind, ok) ELSE 0,
                       "none", 0, 0) EXCEPT !.got = Got(ok)]
          /\ scenario' = Track(IF p.kind # "end" THEN "save" ELSE "endAnswered",
                               p.id, p.by.email)
    /\ UNCHANGED <<server, callLogs, activeCalls, billVars, now>>

\* the handler calls saveCallLog(d) and waits in slot s for the UPDATE
AwaitSave(kind, u, d) ==
    [Idle EXCEPT !.kind = kind, !.pc = "update", !.by = u, !.id = d.call_id, !.data = d]

\* if (!call_id) return: the second db/callLogs.js sends no statement for a
\* callData without call_id
SaveReturnsAtOnce(d) == dbVersion = "second" /\ d.call_id = NoId

----------------------------------------------------------------------------
(* An async handler throws outside its try blocks *)

\* the process ends: the handlers it had suspended are gone; a statement the
\* database was already sent is still run
Orphaned(pend) ==
    [s \in Slots |->
        IF pend[s].pc \in {"update", "insert", "subUpdate", "subInsert", "addInsert"}
        THEN [pend[s] EXCEPT !.kind = "query", !.by = NoCaller, !.pos = 0,
                             !.call = NoCall, !.late = FALSE]
        ELSE Idle]

\* the promise of the handler h is rejected, for a request about id: no answer
\* and the server goes on, or no answer and the process ends together with
\* the registry and the count, or the error handler answers 500
Rejected(h, id, outcome) ==
    /\ fx' = [Fx(h, "threw", id, "-", IF outcome = "errorHandler" THEN 500 ELSE 0,
                 "none", 0, 0) EXCEPT !.got = outcome]
    /\ up' = (outcome # "exit")
    /\ callLogs' = IF outcome = "exit" THEN <<>> ELSE callLogs
    /\ activeCalls' = IF outcome = "exit" THEN 0 ELSE activeCalls
    /\ UNCHANGED <<version, dbVersion>>

----------------------------------------------------------------------------
(* The inbound voice webhook (router.post('/') of routes/inboundWebhook.js) *)

\* the body: without a call, or with a call: bare (no createdAt, no duration),
\* or with a createdAt and a duration, or without an id (NoId)
HookPayloads ==
    [hasCall : {TRUE}, id : CallIds, direction : HookDirections,
     status : HookStatuses, monitor : BOOLEAN, createdAt : {NoTime}, duration : {0}]
      \cup [hasCall : {TRUE}, id : CallIds, direction : HookDirections,
             status : {"ended"}, monitor : {FALSE}, createdAt : {0}, duration : {2}]
      \cup [hasCall : {TRUE}, id : {NoId}, direction : HookDirections,
             status : {"ringing"}, monitor : {FALSE}, createdAt : {NoTime},
             duration : {0}]
      \cup {[hasCall |-> FALSE, id |-> NoId, direction |-> "-", status |-> "-",
              monitor |-> FALSE, createdAt |-> NoTime, duration |-> 0]}

\* const newCall = { id, direction, from, startTime: callEvent.createdAt ? new
\* Date(callEvent.createdAt) : new Date(), status, duration: callEvent.duration
\* || 0, user_email: "N/A" }
HookNewCall(p) ==
    [id |-> p.id, direction |-> p.direction, status |-> p.status,
     user_email |-> UnknownEmail, controlUrl |-> FALSE,
     startTime |-> IF p.createdAt = NoTime THEN now ELSE p.createdAt,
     duration |-> p.duration]

\* const callData = { call_id: newCall.id, ... }
HookCallData(c) ==
    [call_id |-> c.id, user_email |-> c.user_email, direction |-> c.direction,
     status |-> c.status, duration |-> c.duration]

\* the suspended handlers after a rejection
AfterRejection(pend, outcome) == IF outcome = "exit" THEN Orphaned(pend) ELSE pend

\* Under the Map server global.callLogs is never assigned (server.js:151), so
\* global.callLogs.findIndex throws and the promise of the handler is rejected.
\* Under the array servers the record is stored, counted and broadcast, and
\* the handler answers once saveCallLog is over.
InboundWebhook(p, outcome) ==
    /\ Accept
    /\ (~p.hasCall \/ version # "map") => outcome = "reported"
    /\ IF ~p.hasCall
       THEN /\ fx' = Fx("hook", "request", NoId, "-", 400, "none", 0, 0)
            /\ UNCHANGED <<callVars, billVars, pending>>
       ELSE IF version = "map"
       THEN /\ Rejected("hook", p.id, outcome)
            /\ pending' = AfterRejection(pending, outcome)
            /\ scenario' = Track(IF p.status = "ongoing" /\ p.monitor
                                 THEN "hooked" ELSE "other", p.id, "-")
            /\ UNCHANGED <<call_logs, billVars, now, disturbed>>
       ELSE /\ SaveReturnsAtOnce(HookCallData(HookNewCall(p))) \/ FreeSlots # {}
            /\ LET c == HookNewCall(p)
                   k == FindIndex(callLogs, p.id)
                   logs2 == IF k > 0 THEN [callLogs EXCEPT ![k] = c] ELSE <<c>> \o callLogs
                   pend2 == IF k > 0 THEN Detached(pending, k) ELSE Shifted(pending)
                   atOnce == SaveReturnsAtOnce(HookCallData(c))
               IN /\ callLogs' = logs2
                  /\ activeCalls' = CountOngoing(logs2)
                  /\ pending' = IF atOnce THEN pend2
                                ELSE [pend2 EXCEPT ![FreeSlot] =
                                         AwaitSave("hook", NoCaller, HookCallData(c))]
                  /\ disturbed' = IF atOnce THEN disturbed
                                  ELSE disturbed \cup Overlaps(p.id)
                  /\ fx' = Sent(Fx("hook", "request", p.id, "-",
                                   IF atOnce THEN 200 ELSE 0, "none", 1, 1), c)
                  /\ scenario' = Track(IF p.status = "ongoing" /\ p.monitor
                                       THEN "hooked" ELSE "other", p.id, "-")
            /\ UNCHANGED <<server, call_logs, billVars, now>>

----------------------------------------------------------------------------
(* The Map-registry server (server.js 1-488) *)

\* what vapi.post("/call/phone") may answer: a rejection, or the call, with or
\* without a status and a monitor
NoResp == [ok |-> FALSE, status |-> NoStatus, monitor |-> FALSE, createdAt |-> NoTime]
PlaceOutcomes ==
    {NoResp} \cup [ok : {TRUE}, status : StartStatuses, monitor : BOOLEAN,
                   createdAt : CreatedAts]

\* startTime: new Date(response.data.createdAt || Date.now())
StartTime(resp) == IF resp.createdAt = NoTime THEN now ELSE resp.createdAt

\* the id the provider gives the call it is asked to place: ids are
\* interchangeable until used, so the first unused one stands for any
FreshId == CHOOSE i \in CallIds \ UsedIds : TRUE

\* const { phoneNumber } = req.body: present or missing
Body(phone) == IF phone THEN "phoneNumber" ELSE "no phoneNumber"

\* the handler validates the body and waits for vapi.post("/call/phone")
PlaceCall(u, phone) ==
    /\ Accept
    /\ IF ~phone
       THEN /\ fx' = [Fx("start", "request", NoId, u.email, 400, "none", 0, 0)
                         EXCEPT !.got = Body(phone)]
            /\ UNCHANGED pending
       ELSE /\ FreeSlots # {}
            /\ CallIds \ UsedIds # {}
            /\ pending' = [pending EXCEPT ![FreeSlot] =
                              [Idle EXCEPT !.kind = "start", !.pc = "place", !.by = u,
                                           !.id = FreshId]]
            /\ fx' = [Fx("start", "request", NoId, u.email, 0, "place", 0, 0)
                         EXCEPT !.got = Body(phone)]
    /\ UNCHANGED <<callVars, billVars>>

\* newCall with the response's status and no default
NewCallRaw(id, resp, u) ==
    [id |-> id, direction |-> "outbound", status |-> resp.status,
     user_email |-> u.email, controlUrl |-> resp.monitor,
     startTime |-> StartTime(resp), duration |-> 0]

\* const newCall = { id: response.data.id, status: response.data.status || "queued", ... }
NewCall(id, resp, u) ==
    [id |-> id, direction |-> "outbound",
     status |-> IF resp.status = NoStatus THEN "queued" ELSE resp.status,
     user_email |-> u.email, controlUrl |-> resp.monitor,
     startTime |-> StartTime(resp), duration |-> 0]

\* an answer of 200 whatever the provider said
StartAnswerOk(resp) == 200

\* res.status(200).json(newCall), or the catch: res.status(500)
StartAnswer(resp) == IF resp.ok THEN 200 ELSE 500

StartCall(u, phone) ==
    /\ version = "map"
    /\ PlaceCall(u, phone)

\* the provider answers; callLogsMap.set(newCall.id, newCall); notifyClients
StartCallReturn(s, resp) ==
    /\ UNCHANGED requests
    /\ version = "map"
    /\ pending[s].pc = "place"
    /\ LET p == pending[s]
           c == NewCall(p.id, resp, p.by)
           k == FindIndex(callLogs, p.id)
           pend2 == [pending EXCEPT ![s] = Idle]
       IN IF resp.ok
          THEN /\ callLogs' = IF k > 0 THEN [callLogs EXCEPT ![k] = c] ELSE Append(callLogs, c)
               /\ pending' = Detached(pend2, k)
               /\ fx' = Sent([Fx("start", "provider", p.id, p.by.email, StartAnswer(resp),
                                 "none", 0, 1)
                                EXCEPT !.got = resp.status], c)
               /\ scenario' = Track("placed", p.id, p.by.email)
          ELSE /\ fx' = [Fx("start", "provider", NoId, p.by.email, StartAnswer(resp),
                              "none", 0, 0) EXCEPT !.got = "failed"]
               /\ pending' = pend2
               /\ UNCHANGED <<callLogs, scenario>>
    /\ UNCHANGED <<server, activeCalls, call_logs, billVars, now, disturbed>>

\* the checks without the one for the direction
InboundCheckAnyDirection(call) ==
    IF call = NoCall THEN 404
    ELSE IF call.status # "ringing" THEN 400
    ELSE IF ~call.controlUrl THEN 404
    ELSE 0

\* the checks of answer and reject before the provider command: the HTTP status
\* they answer, 0 when the command goes out
InboundCheck(call) ==
    IF call = NoCall THEN 404
    ELSE IF call.direction # "inbound" THEN 400
    ELSE IF call.status # "ringing" THEN 400
    ELSE IF ~call.controlUrl THEN 404
    ELSE 0

\* answer, reject: the checks, then the handler waits for the provider command
InboundControl(kind, u, id, check) ==
    /\ Accept
    /\ IF check # 0
       THEN /\ fx' = Fx(kind, "request", id, u.email, check, "none", 0, 0)
            /\ UNCHANGED pending
       ELSE /\ FreeSlots # {}
            /\ pending' = [pending EXCEPT ![FreeSlot] =
                              [Idle EXCEPT !.kind = kind, !.pc = "control", !.by = u,
                                           !.id = id, !.pos = FindIndex(callLogs, id)]]
            /\ fx' = Fx(kind, "request", id, u.email, 0, kind, 0, 0)
    /\ scenario' = Track("other", id, u.email)
    /\ UNCHANGED <<server, callLogs, activeCalls, call_logs, billVars, now, disturbed>>

AnswerCall(u, id) ==
    /\ version = "map"
    /\ InboundControl("answer", u, id, InboundCheck(Find(callLogs, id)))

RejectCall(u, id) ==
    /\ version = "map"
    /\ InboundControl("reject", u, id, InboundCheck(Find(callLogs, id)))

\* the checks of end without the one for an unknown call id
EndCheckKnown(call, u) ==
    IF call.user_email # u.email /\ ~IsAdmin(u) THEN 403
    ELSE IF call.status \in Terminal THEN 200
    ELSE 0

\* the checks of end: 404 unknown, 403 neither the owner nor an admin, 200
\* already ended, 0 when the handler goes on
EndCheck(call, u) ==
    IF call = NoCall THEN 404
    ELSE IF call.user_email # u.email /\ ~IsAdmin(u) THEN 403
    ELSE IF call.status \in Terminal THEN 200
    ELSE 0

\* call.status = "completed"; call.duration = floor((Date.now() - startTime) / 1000)
FallbackCall(call) ==
    [call EXCEPT !.status = "completed", !.duration = now - call.startTime]

\* callData carrying the status the call had before it was completed
FallbackDataBefore(call, u) ==
    [call_id |-> call.id,
     user_email |-> IF call.user_email = "" THEN u.email ELSE call.user_email,
     direction |-> call.direction, status |-> "ongoing", duration |-> call.duration]

\* const callData = { call_id: call.id, user_email: call.user_email || userEmail, ... };
\* userEmail is req.user.email, and in the array server
\* req.user ? req.user.email : "N/A"
FallbackData(call, u) ==
    [call_id |-> call.id,
     user_email |-> IF call.user_email = "" THEN UserEmail(u) ELSE call.user_email,
     direction |-> call.direction, status |-> call.status, duration |-> call.duration]

\* the registry after a handler changed the object it holds at place pos into
\* m.  The Map server then calls callLogsMap.set(callId, call), which puts the
\* object back under its id when the registry no longer holds it (pos = 0).
Mutated(pos, m) ==
    IF pos > 0 THEN [callLogs EXCEPT ![pos] = m]
    ELSE IF version # "map" THEN callLogs
    ELSE IF FindIndex(callLogs, m.id) > 0
         THEN [callLogs EXCEPT ![FindIndex(callLogs, m.id)] = m]
    ELSE Append(callLogs, m)

\* the suspended handlers after the handler of slot s did that.  An object the
\* registry no longer holds (pos = 0) is the same object for every handler that
\* holds it: they see m.  When callLogsMap.set puts it back, they hold the
\* registry's object again, and the handlers that hold the object it replaced
\* keep that one.
Displaced(pend, s, pos, m) ==
    IF pos > 0 THEN pend
    ELSE IF version # "map"
    THEN [t \in Slots |->
             IF t \in Mates(pend, s) THEN [pend[t] EXCEPT !.call = m] ELSE pend[t]]
    ELSE LET k == FindIndex(callLogs, m.id)
             k2 == IF k > 0 THEN k ELSE Len(callLogs) + 1
             pend2 == Detached(pend, k)
         IN [t \in Slots |->
                IF t \in Mates(pend, s)
                THEN [pend2[t] EXCEPT !.pos = k2, !.call = NoCall, !.mates = {}]
                ELSE pend2[t]]

\* if (vapiEndFailed) { ... }: the object is completed, set in the registry,
\* counted, broadcast, and saveCallLog is called; the handler waits at the UPDATE
LocalFallback(s, u, call, pos) ==
    LET m == FallbackCall(call)
    IN /\ callLogs' = Mutated(pos, m)
       /\ activeCalls' = CountOngoing(Mutated(pos, m))
       /\ pending' = [Displaced(pending, s, pos, m) EXCEPT ![s] =
                          AwaitSave("end", u, FallbackData(m, u))]
       /\ disturbed' = disturbed \cup Overlaps(m.id)

EndCall(u, id) ==
    /\ version = "map"
    /\ Accept
    /\ LET call == Find(callLogs, id)
           check == EndCheck(call, u)
       IN IF check # 0
          THEN /\ fx' = Fx("end", "request", id, u.email, check, "none", 0, 0)
               /\ scenario' = Track("endAnswered", id, u.email)
               /\ UNCHANGED <<callLogs, activeCalls, pending, disturbed>>
          ELSE /\ FreeSlots # {}
               /\ scenario' = Track("endSuspended", id, u.email)
               /\ IF call.controlUrl
                  THEN /\ pending' = [pending EXCEPT ![FreeSlot] =
                                         [Idle EXCEPT !.kind = "end", !.pc = "control",
                                                      !.by = u, !.id = id,
                                                      !.pos = FindIndex(callLogs, id)]]
                       /\ fx' = Fx("end", "request", id, u.email, 0, "end", 0, 0)
                       /\ UNCHANGED <<callLogs, activeCalls, disturbed>>
                  ELSE /\ LocalFallback(FreeSlot, u, call, FindIndex(callLogs, id))
                       /\ fx' = Sent(Fx("end", "request", id, u.email, 0, "none", 1, 1),
                                     FallbackCall(call))
    /\ UNCHANGED <<server, call_logs, billVars, now>>

\* the status set once the provider took the command
Intermediate(kind) ==
    CASE kind = "answer" -> "answering"
      [] kind = "reject" -> "rejecting"
      [] OTHER -> "ending"

\* the provider command of answer, reject or end returns
ControlReturn(s, ok) ==
    /\ UNCHANGED requests
    /\ version = "map"
    /\ pending[s].pc = "control"
    /\ LET p == pending[s]
           call == Held(p)
       IN IF ok
          THEN /\ callLogs' = Mutated(p.pos, [call EXCEPT !.status = Intermediate(p.kind)])
               /\ pending' = [Displaced(pending, s, p.pos,
                                               [call EXCEPT !.status = Intermediate(p.kind)])
                                  EXCEPT ![s] = Idle]
               /\ fx' = Sent([Fx(p.kind, "provider", p.id, p.by.email, 200, "none", 0, 1)
                                EXCEPT !.got = "ok"],
                              [call EXCEPT !.status = Intermediate(p.kind)])
               /\ scenario' = Track("other", p.id, p.by.email)
               /\ UNCHANGED <<activeCalls, disturbed>>
          ELSE IF p.kind = "end"
          THEN /\ LocalFallback(s, p.by, call, p.pos)
               /\ fx' = Sent([Fx("end", "provider", p.id, p.by.email, 0, "none", 1, 1)
                                EXCEPT !.got = "failed"], FallbackCall(call))
               /\ scenario' = Track("endFailed", p.id, p.by.email)
          ELSE /\ pending' = [pending EXCEPT ![s] = Idle]
               /\ fx' = [Fx(p.kind, "provider", p.id, p.by.email, 500, "none", 0, 0)
                           EXCEPT !.got = "failed"]
               /\ scenario' = Track("other", p.id, p.by.email)
               /\ UNCHANGED <<callLogs, activeCalls, disturbed>>
    /\ UNCHANGED <<server, call_logs, billVars, now>>

\* the registry sorted by startTime, newest first (Array.prototype.sort is stable)
RECURSIVE SortedFrom(_, _)
SortedFrom(logs, t) ==
    IF t < 0 THEN <<>>
    ELSE LET At(c) == c.startTime = t
         IN SelectSeq(logs, At) \o SortedFrom(logs, t - 1)

\* GET /api/calls: an admin sees all the calls, a user the calls with his email
GetCalls(u) ==
    LET allLogs == SortedFrom(callLogs, now)
        Mine(c) == c.user_email = u.email
    IN IF IsAdmin(u) THEN allLogs ELSE SelectSeq(allLogs, Mine)

\* GET /api/calls/:id: the HTTP status answered
GetCall(u, id) ==
    LET call == Find(callLogs, id)
    IN IF call # NoCall /\ (call.user_email = u.email \/ IsAdmin(u)) THEN 200
       ELSE IF call = NoCall THEN 404
       ELSE 403

----------------------------------------------------------------------------
(* The array-registry server (server.js 489-851) *)

\* const newCall = { ...response.data, direction: "outbound", status: "queued", ... }
NewCallArray(id, resp, u) ==
    [id |-> id, direction |-> "outbound", status |-> "queued",
     user_email |-> u.email, controlUrl |-> resp.monitor, startTime |-> now,
     duration |-> 0]

StartCallArray(u, phone) ==
    /\ version = "array"
    /\ PlaceCall(u, phone)

\* the provider answers; callLogs.unshift(newCall); updateActiveCalls; notifyClients
StartCallArrayReturn(s, resp) ==
    /\ UNCHANGED requests
    /\ version = "array"
    /\ pending[s].pc = "place"
    /\ LET p == pending[s]
           c == NewCallArray(p.id, resp, p.by)
           pend2 == [pending EXCEPT ![s] = Idle]
       IN IF resp.ok
          THEN /\ callLogs' = <<c>> \o callLogs
               /\ activeCalls' = CountOngoing(<<c>> \o callLogs)
               /\ pending' = Shifted(pend2)
               /\ fx' = Sent([Fx("start", "provider", p.id, p.by.email, StartAnswer(resp),
                                 "none", 0, 1)
                                EXCEPT !.got = resp.status], c)
               /\ scenario' = Track("placed", p.id, p.by.email)
          ELSE /\ fx' = [Fx("start", "provider", NoId, p.by.email, StartAnswer(resp),
                              "none", 0, 0) EXCEPT !.got = "failed"]
               /\ pending' = pend2
               /\ UNCHANGED <<callLogs, activeCalls, scenario>>
    /\ UNCHANGED <<server, call_logs, billVars, now, disturbed>>

\* the checks without the one for the control handle
InboundCheckArrayOpen(call) ==
    IF call = NoCall THEN 404
    ELSE IF call.direction # "inbound" THEN 400
    ELSE 0

\* the checks of answer and reject in the array server
InboundCheckArray(call) ==
    IF call = NoCall THEN 404
    ELSE IF call.direction # "inbound" THEN 400
    ELSE IF ~call.controlUrl THEN 404
    ELSE 0

AnswerCallArray(u, id) ==
    /\ version = "array"
    /\ InboundControl("answer", u, id, InboundCheckArray(Find(callLogs, id)))

RejectCallArray(u, id) ==
    /\ version = "array"
    /\ InboundControl("reject", u, id, InboundCheckArray(Find(callLogs, id)))

\* if (!call || !call.monitor?.controlUrl) return 404
EndCheckArray(call) == IF call = NoCall \/ ~call.controlUrl THEN 404 ELSE 0

EndCallArray(u, id) ==
    /\ version = "array"
    /\ Accept
    /\ IF EndCheckArray(Find(callLogs, id)) # 0
       THEN /\ fx' = Fx("end", "request", id, u.email, 404, "none", 0, 0)
            /\ scenario' = Track("endAnswered", id, u.email)
            /\ UNCHANGED pending
       ELSE /\ FreeSlots # {}
            /\ pending' = [pending EXCEPT ![FreeSlot] =
                              [Idle EXCEPT !.kind = "end", !.pc = "control", !.by = u,
                                           !.id = id, !.pos = FindIndex(callLogs, id)]]
            /\ fx' = Fx("end", "request", id, u.email, 0, "end", 0, 0)
            /\ scenario' = Track("endSuspended", id, u.email)
    /\ UNCHANGED <<server, callLogs, activeCalls, call_logs, billVars, now, disturbed>>

\* what the object becomes once the provider took the command
TakenArray(kind, call) ==
    IF kind = "answer" THEN [call EXCEPT !.status = "ongoing"]
    ELSE [call EXCEPT !.status = "completed", !.duration = now - call.startTime]

\* the provider command returns: on success the object is changed, counted (not
\* by answer) and broadcast, and end saves it and answers after the save; on
\* failure the catch answers 500
ControlArrayReturn(s, ok) ==
    /\ UNCHANGED requests
    /\ version = "array"
    /\ pending[s].pc = "control"
    /\ LET p == pending[s]
           m == TakenArray(p.kind, Held(p))
       IN IF ok
          THEN /\ callLogs' = Mutated(p.pos, m)
               /\ activeCalls' = IF p.kind = "answer" THEN activeCalls
                                 ELSE CountOngoing(Mutated(p.pos, m))
               /\ pending' = [Displaced(pending, s, p.pos, m) EXCEPT ![s] =
                                 IF p.kind = "end"
                                 THEN AwaitSave("end", p.by, FallbackData(m, p.by))
                                 ELSE Idle]
               /\ disturbed' = IF p.kind = "end" THEN disturbed \cup Overlaps(p.id)
                               ELSE disturbed
               /\ fx' = Sent([Fx(p.kind, "provider", p.id, p.by.email,
                                 IF p.kind = "end" THEN 0 ELSE 200, "none",
                                 IF p.kind = "end" THEN 1 ELSE 0, 1)
                                EXCEPT !.got = "ok"], m)
               /\ scenario' = Track("other", p.id, p.by.email)
          ELSE /\ pending' = [pending EXCEPT ![s] = Idle]
               /\ fx' = [Fx(p.kind, "provider", p.id, p.by.email, 500, "none", 0, 0)
                           EXCEPT !.got = "failed"]
               /\ scenario' = Track(IF p.kind = "end" THEN "endFailed" ELSE "other",
                                    p.id, p.by.email)
               /\ UNCHANGED <<callLogs, activeCalls, disturbed>>
    /\ UNCHANGED <<server, call_logs, billVars, now>>

\* GET /api/calls: res.json(callLogs)
GetCallsArray(u) == callLogs

\* GET /api/calls/:id: the HTTP status answered
GetCallArray(u, id) == IF Find(callLogs, id) # NoCall THEN 200 ELSE 404

\* GET /api/calls/:id of the server that runs
ReadCall(u, id) == IF version = "map" THEN GetCall(u, id) ELSE GetCallArray(u, id)

\* GET /api/calls of the server that runs
ListCalls(u) == IF version = "map" THEN GetCalls(u) ELSE GetCallsArray(u)

----------------------------------------------------------------------------
(* The first version of server.js (unnamed/part_001): the array registry,   *)
(* no isAuthenticated on the call routes, no check of the body of start     *)

\* const newCall = { ...response.data, direction: "outbound", status: "ongoing", ... }:
\* the record has no user_email
NewCallFirst(id, resp) ==
    [id |-> id, direction |-> "outbound", status |-> "ongoing", user_email |-> "",
     controlUrl |-> resp.monitor, startTime |-> now, duration |-> 0]

\* POST /api/calls/start: the body goes to vapi.post("/call/phone") as it is
StartCallFirst(u, phone) ==
    /\ version = "first"
    /\ Accept
    /\ FreeSlots # {}
    /\ CallIds \ UsedIds # {}
    /\ pending' = [pending EXCEPT ![FreeSlot] =
                      [Idle EXCEPT !.kind = "start", !.pc = "place", !.by = u,
                                   !.id = FreshId]]
    /\ fx' = [Fx("start", "request", NoId, u.email, 0, "place", 0, 0)
                 EXCEPT !.got = Body(phone)]
    /\ UNCHANGED <<callVars, billVars>>

\* the provider answers; callLogs.unshift(newCall); updateActiveCalls; notifyClients
StartCallFirstReturn(s, resp) ==
    /\ UNCHANGED requests
    /\ version = "first"
    /\ pending[s].pc = "place"
    /\ LET p == pending[s]
           c == NewCallFirst(p.id, resp)
           pend2 == [pending EXCEPT ![s] = Idle]
       IN IF resp.ok
          THEN /\ callLogs' = <<c>> \o callLogs
               /\ activeCalls' = CountOngoing(<<c>> \o callLogs)
               /\ pending' = Shifted(pend2)
               /\ fx' = Sent([Fx("start", "provider", p.id, p.by.email, StartAnswer(resp),
                                 "none", 0, 1)
                                EXCEPT !.got = resp.status], c)
               /\ scenario' = Track("placed", p.id, p.by.email)
          ELSE /\ fx' = [Fx("start", "provider", NoId, p.by.email, StartAnswer(resp),
                              "none", 0, 0) EXCEPT !.got = "failed"]
               /\ pending' = pend2
               /\ UNCHANGED <<callLogs, activeCalls, scenario>>
    /\ UNCHANGED <<server, call_logs, billVars, now, disturbed>>

AnswerCallFirst(u, id) ==
    /\ version = "first"
    /\ InboundControl("answer", u, id, InboundCheckArray(Find(callLogs, id)))

RejectCallFirst(u, id) ==
    /\ version = "first"
    /\ InboundControl("reject", u, id, InboundCheckArray(Find(callLogs, id)))

EndCallFirst(u, id) ==
    /\ version = "first"
    /\ Accept
    /\ IF EndCheckArray(Find(callLogs, id)) # 0
       THEN /\ fx' = Fx("end", "request", id, u.email, 404, "none", 0, 0)
            /\ scenario' = Track("endAnswered", id, u.email)
            /\ UNCHANGED pending
       ELSE /\ FreeSlots # {}
            /\ pending' = [pending EXCEPT ![FreeSlot] =
                              [Idle EXCEPT !.kind = "end", !.pc = "control", !.by = u,
                                           !.id = id, !.pos = FindIndex(callLogs, id)]]
            /\ fx' = Fx("end", "request", id, u.email, 0, "end", 0, 0)
            /\ scenario' = Track("endSuspended", id, u.email)
    /\ UNCHANGED <<server, callLogs, activeCalls, call_logs, billVars, now, disturbed>>

\* const callData = { call_id: call.id, user_email: req.user ? req.user.email : "N/A", ... }
EndDataFirst(call, u) ==
    [call_id |-> call.id, user_email |-> UserEmail(u), direction |-> call.direction,
     status |-> call.status, duration |-> call.duration]

\* the provider command returns: on success the object is changed and
\* broadcast, end counts the ongoing calls and saves; on failure the catch
\* answers 500
ControlFirstReturn(s, ok) ==
    /\ UNCHANGED requests
    /\ version = "first"
    /\ pending[s].pc = "control"
    /\ LET p == pending[s]
           m == TakenArray(p.kind, Held(p))
       IN IF ok
          THEN /\ callLogs' = Mutated(p.pos, m)
               /\ activeCalls' = IF p.kind = "end" THEN CountOngoing(Mutated(p.pos, m))
                                 ELSE activeCalls
               /\ pending' = [Displaced(pending, s, p.pos, m) EXCEPT ![s] =
                                 IF p.kind = "end"
                                 THEN AwaitSave("end", p.by, EndDataFirst(m, p.by))
                                 ELSE Idle]
               /\ disturbed' = IF p.kind = "end" THEN disturbed \cup Overlaps(p.id)
                               ELSE disturbed
               /\ fx' = Sent([Fx(p.kind, "provider", p.id, p.by.email,
                                 IF p.kind = "end" THEN 0 ELSE 200, "none",
                                 IF p.kind = "end" THEN 1 ELSE 0, 1)
                                EXCEPT !.got = "ok"], m)
               /\ scenario' = Track("other", p.id, p.by.email)
          ELSE /\ pending' = [pending EXCEPT ![s] = Idle]
               /\ fx' = [Fx(p.kind, "provider", p.id, p.by.email, 500, "none", 0, 0)
                           EXCEPT !.got = "failed"]
               /\ scenario' = Track(IF p.kind = "end" THEN "endFailed" ELSE "other",
                                    p.id, p.by.email)
               /\ UNCHANGED <<callLogs, activeCalls, disturbed>>
    /\ UNCHANGED <<server, call_logs, billVars, now>>

----------------------------------------------------------------------------
(* Billing: the Stripe webhook (routes/webhook.js), saveSubscriptionToDb     *)
(* (db/subscriptions.js) and POST /api/subscriptions/add-subscription        *)

\* a row of subscriptions; stripe_event_id is NoId where the column is NULL
SubRow(email, ev) == [email |-> email, stripe_event_id |-> ev]

\* SELECT id FROM subscriptions WHERE stripe_event_id = ? LIMIT 1
ByEvent(rows, ev) == { k \in 1..Len(rows) : rows[k].stripe_event_id = ev }

\* SELECT id FROM subscriptions WHERE email = ? LIMIT 1
ByEmail(rows, email) == { k \in 1..Len(rows) : rows[k].email = email }

\* UPDATE subscriptions SET ..., stripe_event_id = ? WHERE email = ?
UpdateByEmail(rows, email, ev) ==
    [k \in 1..Len(rows) |-> IF rows[k].email = email THEN SubRow(email, ev) ELSE rows[k]]

\* an inbound call report: the call's id, status, duration, type and customer
\* number
CallReport(call, status, duration, ctype, phone) ==
    [type |-> "call.inbound.completed", id |-> "evt1", email |-> "-", call |-> call,
     status |-> status, duration |-> duration, ctype |-> ctype, phone |-> phone]

\* the reports: the plain one (ended, no duration, an inbound type, no customer
\* number) of each call, and for one call the reports that differ from it in
\* the status and duration, in the type, or in the customer number
CallReports ==
    { CallReport(c, "ended", 0, "inboundPhoneCall", NoPhone) : c \in CallIds }
      \cup { CallReport("c1", "ongoing", d, "inboundPhoneCall", NoPhone) :
                d \in Durations \ {0} }
      \cup { CallReport("c1", "ended", 0, ty, NoPhone) :
                ty \in ReportTypes \ {"inboundPhoneCall"} }
      \cup { CallReport("c1", "ended", 0, ty, ph) :
                ty \in {"inboundPhoneCall", NoType}, ph \in Phones \ {NoPhone} }

\* the verified events: a checkout, an inbound call report, anything else
StripeEvents ==
    [type : {"checkout.session.completed", "other"}, id : EventIds, email : Emails,
     call : {NoId}, status : {"-"}, duration : {0}, ctype : {NoType}, phone : {NoPhone}]
      \cup CallReports

\* const callEvent = event.data.object
Report(e) ==
    [call |-> e.call, status |-> e.status, duration |-> e.duration, ctype |-> e.ctype,
     phone |-> e.phone]

\* SELECT email FROM users WHERE phone = ?: users[0].email, "N/A" when no user
\* has the phone
UserByPhone(phone) == IF phone = "phone-a" THEN "a" ELSE UnknownEmail

\* callEvent.type.includes('inbound') ? 'inbound' : 'outbound'
ReportDirection(ctype) == IF ctype = "inboundPhoneCall" THEN "inbound" ELSE "outbound"

\* const callData = { call_id: callEvent.id, user_email: userEmail, direction,
\* status: callEvent.status, duration: callEvent.duration || 0, ... }
StripeCallData(r, userEmail) ==
    [call_id |-> r.call, user_email |-> userEmail, direction |-> ReportDirection(r.ctype),
     status |-> r.status, duration |-> r.duration]

\* the handler answers { received: true }
Received(p, step) ==
    IF p.kind = "query"
    THEN /\ fx' = Fx("query", step, p.ev, p.mail, 0, "none", 0, 0)
         /\ UNCHANGED delivered
    ELSE /\ fx' = Fx("checkout", step, p.ev, p.mail, 200, "none", 0, 0)
         /\ delivered' = [delivered EXCEPT ![p.ev] = @ + 1]

\* the handler of a call report, with the user's email: it builds callData,
\* where callEvent.type.includes throws when the report has no type, calls
\* saveCallLog and waits for the UPDATE.  waiting: the handler already sits in
\* slot s.
SaveReport(s, waiting, r, userEmail, step, outcome) ==
    LET pend == IF waiting THEN [pending EXCEPT ![s] = Idle] ELSE pending
    IN IF r.ctype = NoType
       THEN /\ Rejected("stripe", r.call, outcome)
            /\ pending' = AfterRejection(pend, outcome)
            /\ UNCHANGED disturbed
       ELSE /\ waiting \/ FreeSlots # {}
            /\ pending' = [pending EXCEPT ![IF waiting THEN s ELSE FreeSlot] =
                              AwaitSave("stripe", NoCaller, StripeCallData(r, userEmail))]
            /\ disturbed' = disturbed \cup Overlaps(r.call)
            /\ fx' = Fx("stripe", step, r.call, "-", 0, "none", 1, 0)
            /\ UNCHANGED <<server, callLogs, activeCalls>>

\* POST /webhook (STRIPE_WEBHOOK_SECRET set): the signature is verified; a
\* checkout.session.completed event calls saveSubscriptionToDb, which first
\* looks its event id up; an inbound call report with a customer number looks
\* the user up by phone, and then, as one without, calls saveCallLog
StripeWebhook(sigOk, e, outcome) ==
    /\ Accept
    /\ ~(sigOk /\ e.type = "call.inbound.completed" /\ e.phone = NoPhone
           /\ e.ctype = NoType) => outcome = "reported"
    /\ IF ~sigOk
       THEN /\ fx' = Fx("checkout", "request", e.id, e.email, 400, "none", 0, 0)
            /\ UNCHANGED <<server, callLogs, activeCalls, pending, disturbed>>
       ELSE IF e.type = "checkout.session.completed"
       THEN /\ FreeSlots # {}
            /\ pending' = [pending EXCEPT ![FreeSlot] =
                              [Idle EXCEPT !.kind = "checkout", !.pc = "selEvent",
                                           !.ev = e.id, !.mail = e.email,
                                           !.late = e.id \in processed]]
            /\ fx' = Fx("checkout", "request", e.id, e.email, 0, "none", 0, 0)
            /\ UNCHANGED <<server, callLogs, activeCalls, disturbed>>
       ELSE IF e.type = "call.inbound.completed"
       THEN IF e.phone # NoPhone
            THEN /\ FreeSlots # {}
                 /\ pending' = [pending EXCEPT ![FreeSlot] =
                                   [Idle EXCEPT !.kind = "stripe", !.pc = "selUser",
                                                !.id = e.call, !.report = Report(e)]]
                 /\ fx' = Fx("stripe", "request", e.call, "-", 0, "none", 0, 0)
                 /\ UNCHANGED <<server, callLogs, activeCalls, disturbed>>
            ELSE SaveReport(0, FALSE, Report(e), UnknownEmail, "request", outcome)
       ELSE /\ fx' = Fx("checkout", "request", e.id, e.email, 200, "none", 0, 0)
            /\ UNCHANGED <<server, callLogs, activeCalls, pending, disturbed>>
    /\ UNCHANGED <<call_logs, now, scenario, billVars>>

\* the lookup of the user returns; an error is logged and the email stays "N/A"
UserLookupReturn(s, ok, outcome) ==
    /\ pending[s].pc = "selUser"
    /\ pending[s].report.ctype # NoType => outcome = "reported"
    /\ SaveReport(s, TRUE, pending[s].report,
                  IF ok THEN UserByPhone(pending[s].report.phone) ELSE UnknownEmail,
                  "selUser", outcome)
    /\ UNCHANGED <<call_logs, now, scenario, billVars, requests>>

\* the lookup by event id returns: a row found ends saveSubscriptionToDb; an
\* error is thrown to the handler, which logs it and answers
SelectEventReturn(s, ok) ==
    /\ pending[s].pc = "selEvent"
    /\ LET p == pending[s]
           going == ok /\ ByEvent(subscriptions, p.ev) = {}
       IN IF going
          THEN /\ pending' = [pending EXCEPT ![s].pc = "selEmail"]
               /\ fx' = Fx("checkout", "selEvent", p.ev, p.mail, 0, "none", 0, 0)
               /\ UNCHANGED delivered
          ELSE /\ pending' = [pending EXCEPT ![s] = Idle]
               /\ Received(p, "selEvent")
    /\ UNCHANGED <<callVars, subscriptions, processed, requests>>

\* the lookup by email returns: UPDATE when a row has the email, else INSERT;
\* an error is logged and saveSubscriptionToDb returns
SelectEmailReturn(s, ok) ==
    /\ pending[s].pc = "selEmail"
    /\ LET p == pending[s]
       IN IF ok
          THEN /\ pending' = [pending EXCEPT ![s].pc =
                                 IF ByEmail(subscriptions, p.mail) # {}
                                 THEN "subUpdate" ELSE "subInsert"]
               /\ fx' = Fx("checkout", "selEmail", p.ev, p.mail, 0, "none", 0, 0)
               /\ UNCHANGED delivered
          ELSE /\ pending' = [pending EXCEPT ![s] = Idle]
               /\ Received(p, "selEmail")
    /\ UNCHANGED <<callVars, subscriptions, processed, requests>>

\* the UPDATE returns
SubUpdateReturn(s, ok) ==
    /\ pending[s].pc = "subUpdate"
    /\ LET p == pending[s]
       IN /\ subscriptions' = IF ok THEN UpdateByEmail(subscriptions, p.mail, p.ev)
                              ELSE subscriptions
          /\ processed' = IF ok THEN processed \cup {p.ev} ELSE processed
          /\ pending' = [pending EXCEPT ![s] = Idle]
          /\ Received(p, "subUpdate")
    /\ UNCHANGED <<callVars, requests>>

\* the INSERT returns
SubInsertReturn(s, ok) ==
    /\ pending[s].pc = "subInsert"
    /\ LET p == pending[s]
       IN /\ subscriptions' = IF ok THEN Append(subscriptions, SubRow(p.mail, p.ev))
                              ELSE subscriptions
          /\ processed' = IF ok THEN processed \cup {p.ev} ELSE processed
          /\ pending' = [pending EXCEPT ![s] = Idle]
          /\ Received(p, "subInsert")
    /\ UNCHANGED <<callVars, requests>>

\* POST /add-subscription: the handler waits for a connection
AddSubscription(email) ==
    /\ Accept
    /\ FreeSlots # {}
    /\ pending' = [pending EXCEPT ![FreeSlot] =
                      [Idle EXCEPT !.kind = "addsub", !.pc = "connect", !.mail = email]]
    /\ fx' = Fx("addsub", "request", NoId, email, 0, "none", 0, 0)
    /\ UNCHANGED <<callVars, billVars>>

\* pool.getConnection() returns: the INSERT goes out, or the catch answers 500
AddConnectReturn(s, ok) ==
    /\ pending[s].pc = "connect"
    /\ pending' = [pending EXCEPT ![s] = IF ok THEN [@ EXCEPT !.pc = "addInsert"] ELSE Idle]
    /\ fx' = Fx("addsub", "connect", NoId, pending[s].mail, IF ok THEN 0 ELSE 500,
                "none", 0, 0)
    /\ UNCHANGED <<callVars, billVars, requests>>

\* the INSERT returns
AddInsertReturn(s, ok) ==
    /\ pending[s].pc = "addInsert"
    /\ subscriptions' = IF ok THEN Append(subscriptions, SubRow(pending[s].mail, NoId))
                        ELSE subscriptions
    /\ pending' = [pending EXCEPT ![s] = Idle]
    /\ fx' = IF pending[s].kind = "query"
             THEN Fx("query", "addInsert", NoId, pending[s].mail, 0, "none", 0, 0)
             ELSE Fx("addsub", "addInsert", NoId, pending[s].mail,
                     IF ok THEN 200 ELSE 500, "none", 0, 0)
    /\ UNCHANGED <<callVars, delivered, processed, requests>>

----------------------------------------------------------------------------
(* Time *)

Tick ==
    /\ UNCHANGED requests
    /\ now < MaxTime
    /\ now' = now + 1
    /\ fx' = Fx("clock", "-", NoId, "-", 0, "none", 0, 0)
    /\ UNCHANGED <<server, callLogs, activeCalls, call_logs, billVars, pending,
                   disturbed, scenario>>

----------------------------------------------------------------------------
(* The system *)

Init ==
    /\ version \in {"map", "array"}
    /\ dbVersion = "second"
    /\ up = TRUE
    /\ callLogs = <<>>
    /\ activeCalls = 0
    /\ call_logs = <<>>
    /\ subscriptions = <<>>
    /\ pending = [s \in Slots |-> Idle]
    /\ now = 0
    /\ fx = NoFx
    /\ disturbed = {}
    /\ scenario = NoScenario
    /\ requests = 0
    /\ delivered = [e \in EventIds |-> 0]
    /\ processed = {}

Next ==
    \/ \E p \in HookPayloads, outcome \in Rejections : InboundWebhook(p, outcome)
    \/ \E s \in Slots, ok \in BOOLEAN : SaveUpdateReturn(s, ok)
    \/ \E s \in Slots, ok \in BOOLEAN : SaveInsertReturn(s, ok)
    \/ \E u \in Callers, phone \in BOOLEAN : StartCall(u, phone)
    \/ \E s \in Slots, resp \in PlaceOutcomes : StartCallReturn(s, resp)
    \/ \E u \in Callers, id \in CallIds : AnswerCall(u, id)
    \/ \E u \in Callers, id \in CallIds : RejectCall(u, id)
    \/ \E u \in Callers, id \in CallIds : EndCall(u, id)
    \/ \E s \in Slots, ok \in BOOLEAN : ControlReturn(s, ok)
    \/ \E u \in Callers, phone \in BOOLEAN : StartCallArray(u, phone)
    \/ \E s \in Slots, resp \in PlaceOutcomes : StartCallArrayReturn(s, resp)
    \/ \E u \in Callers, id \in CallIds : AnswerCallArray(u, id)
    \/ \E u \in Callers, id \in CallIds : RejectCallArray(u, id)
    \/ \E u \in Callers, id \in CallIds : EndCallArray(u, id)
    \/ \E s \in Slots, ok \in BOOLEAN : ControlArrayReturn(s, ok)
    \/ Tick

NextBilling ==
    \/ \E sigOk \in BOOLEAN, e \in StripeEvents, outcome \in Rejections :
          StripeWebhook(sigOk, e, outcome)
    \/ \E s \in Slots, ok \in BOOLEAN, outcome \in Rejections :
          UserLookupReturn(s, ok, outcome)
    \/ \E s \in Slots, ok \in BOOLEAN : SaveUpdateReturn(s, ok)
    \/ \E s \in Slots, ok \in BOOLEAN : SaveInsertReturn(s, ok)
    \/ \E s \in Slots, ok \in BOOLEAN : SelectEventReturn(s, ok)
    \/ \E s \in Slots, ok \in BOOLEAN : SelectEmailReturn(s, ok)
    \/ \E s \in Slots, ok \in BOOLEAN : SubUpdateReturn(s, ok)
    \/ \E s \in Slots, ok \in BOOLEAN : SubInsertReturn(s, ok)
    \/ \E email \in Emails : AddSubscription(email)
    \/ \E s \in Slots, ok \in BOOLEAN : AddConnectReturn(s, ok)
    \/ \E s \in Slots, ok \in BOOLEAN : AddInsertReturn(s, ok)

\* the first version of the server starts
InitFirst ==
    /\ version = "first"
    /\ dbVersion = "first"
    /\ up = TRUE
    /\ callLogs = <<>>
    /\ activeCalls = 0
    /\ call_logs = <<>>
    /\ subscriptions = <<>>
    /\ pending = [s \in Slots |-> Idle]
    /\ now = 0
    /\ fx = NoFx
    /\ disturbed = {}
    /\ scenario = NoScenario
    /\ requests = 0
    /\ delivered = [e \in EventIds |-> 0]
    /\ processed = {}

NextFirst ==
    \/ \E p \in HookPayloads, outcome \in Rejections : InboundWebhook(p, outcome)
    \/ \E s \in Slots, ok \in BOOLEAN : SaveUpdateReturn(s, ok)
    \/ \E s \in Slots, ok \in BOOLEAN : SaveInsertReturn(s, ok)
    \/ \E u \in CallersFirst, phone \in BOOLEAN : StartCallFirst(u, phone)
    \/ \E s \in Slots, resp \in PlaceOutcomes : StartCallFirstReturn(s, resp)
    \/ \E u \in CallersFirst, id \in CallIds : AnswerCallFirst(u, id)
    \/ \E u \in CallersFirst, id \in CallIds : RejectCallFirst(u, id)
    \/ \E u \in CallersFirst, id \in CallIds : EndCallFirst(u, id)
    \/ \E s \in Slots, ok \in BOOLEAN : ControlFirstReturn(s, ok)
    \/ Tick

\* the call side: the server, the voice webhook and saveCallLog
Spec == Init /\ [][Next]_vars

\* the call side with the first version of the server
SpecFirst == InitFirst /\ [][NextFirst]_vars

\* the billing side
SpecBilling == Init /\ [][NextBilling]_vars

----------------------------------------------------------------------------
(* Properties *)

RowsIn(rows, id) == { k \in 1..Len(rows) : rows[k].call_id = id }

CallerOf(email) == CHOOSE u \in Callers : u.email = email

\* C1: once the record of a call id has a control handle, no update of the
\* registry leaves the record of that id without it.
C1_HandleKept ==
    [][\A i \in CallIds :
          (Find(callLogs, i).controlUrl /\ Find(callLogs', i) # NoCall)
              => Find(callLogs', i).controlUrl]_vars

\* C2: the registry holds at most one record per call id, however outbound
\* starts and webhook events for the same id interleave.
C2_OneRecordPerId ==
    \A i \in CallIds : Cardinality(Indices(callLogs, i)) <= 1

\* C3: once the owner has placed a call, a webhook for its id has reported
\* ongoing with a control handle, and the owner's end request has been
\* answered, the record is completed with a duration and call_logs holds
\* exactly one row for the id (saves that failed or overlapped set aside).
C3_ScenarioEnds ==
    (scenario.st = "done" /\ scenario.id \notin disturbed)
        => /\ Find(callLogs, scenario.id).status = "completed"
           /\ Find(callLogs, scenario.id).duration >= 0
           /\ Cardinality(Rows(scenario.id)) = 1

\* C4: an end request by the owner or an admin on a record that is not
\* terminal and has no control handle issues no provider command, completes
\* the record with duration now - startTime, and starts exactly one
\* saveCallLog for the call id.
C4_EndWithoutHandle ==
    [][(/\ fx'.h = "end" /\ fx'.step = "request"
        /\ Find(callLogs, fx'.id) # NoCall
        /\ (Find(callLogs, fx'.id).user_email = fx'.by \/ IsAdmin(CallerOf(fx'.by)))
        /\ Find(callLogs, fx'.id).status \notin Terminal
        /\ ~Find(callLogs, fx'.id).controlUrl)
       => /\ fx'.cmd = "none"
          /\ Find(callLogs', fx'.id).status = "completed"
          /\ Find(callLogs', fx'.id).duration = now - Find(callLogs, fx'.id).startTime
          /\ fx'.save = 1
          /\ Cardinality({ s \in Slots : pending'[s].pc = "update" /\ pending'[s].id = fx'.id })
               = Cardinality({ s \in Slots : pending[s].pc = "update" /\ pending[s].id = fx'.id }) + 1
      ]_vars

\* C5: an answer or reject request on an existing record whose status is not
\* ringing is answered 400, issues no provider command and leaves the registry
\* and the suspended handlers as they were.
C5_NotRinging ==
    [][(/\ fx'.h \in {"answer", "reject"} /\ fx'.step = "request"
        /\ Find(callLogs, fx'.id) # NoCall
        /\ Find(callLogs, fx'.id).status # "ringing")
       => /\ fx'.http = 400
          /\ fx'.cmd = "none"
          /\ callLogs' = callLogs
          /\ pending' = pending
          /\ activeCalls' = activeCalls
      ]_vars

\* C6: when the saveCallLog of a webhook delivery completes, and no save for
\* that call id has failed or overlapped another, call_logs holds exactly one
\* row with the call id: a second delivery updates the row of the first.
C6_OneRow ==
    [][(/\ fx'.h = "hook" /\ fx'.step \in {"update", "insert"} /\ fx'.http = 200
        /\ fx'.id \notin disturbed')
       => Cardinality(RowsIn(call_logs', fx'.id)) = 1]_vars

\* the second of two deliveries in sequence has been saved by the UPDATE
C6_Witness ==
    /\ fx.h = "hook" /\ fx.step = "update" /\ fx.http = 200 /\ fx.got = "ok"
    /\ fx.id \notin disturbed
    /\ scenario.st = "none"
    /\ requests = 2
    /\ Cardinality(Rows(fx.id)) = 1

\* C7: once the checkout.session.completed webhook of an event id has been
\* answered twice, at most one row of subscriptions has that stripe_event_id.
C7_OneRowPerEvent ==
    \A e \in EventIds :
        delivered[e] >= 2 => Cardinality(ByEvent(subscriptions, e)) <= 1

\* C8: GET /api/calls by a caller who is not an admin returns no record whose
\* user_email differs from the caller's email.
C8_OwnCallsOnly ==
    \A u \in Callers :
        ~IsAdmin(u) =>
            \A k \in 1..Len(ListCalls(u)) : ListCalls(u)[k].user_email = u.email

\* the record a successful start has just registered, as GET /api/calls by the
\* same caller lists it, has the given status
Listed(logs, email, id, status) ==
    \E k \in 1..Len(logs) :
        /\ logs[k].id = id
        /\ logs[k].direction = "outbound"
        /\ logs[k].user_email = email
        /\ logs[k].status = status

\* C9 as stated: right after a successful start by u, GET /api/calls by u
\* lists a record with the provider's call id, direction outbound, owner u and
\* status queued, whatever the provider answered.
C9_ListedQueued ==
    [][\A u \in Callers :
          (fx'.h = "start" /\ fx'.step = "provider" /\ fx'.http = 200 /\ fx'.by = u.email)
              => Listed(ListCalls(u)', u.email, fx'.id, "queued")]_vars

\* C9 amended: the status listed is queued when the provider's answer carries
\* no status or the array server runs, and on the Map server the status of the
\* provider's answer when it carries one.
C9_ListedWithProviderStatus ==
    [][\A u \in Callers :
          (fx'.h = "start" /\ fx'.step = "provider" /\ fx'.http = 200 /\ fx'.by = u.email)
              => Listed(ListCalls(u)', u.email, fx'.id,
                        IF version = "map" /\ fx'.got # NoStatus THEN fx'.got
                        ELSE "queued")]_vars

C9_Witness ==
    /\ version = "map"
    /\ fx.h = "start" /\ fx.step = "provider" /\ fx.http = 200 /\ fx.got = "ringing"
    /\ Listed(ListCalls(CallerOf(fx.by)), fx.by, fx.id, "ringing")

\* C10: when the provider command of answer, reject or end fails, the handler
\* completes the record in the registry and starts a saveCallLog for it.
C10_FallbackOnFailure ==
    [][(/\ fx'.h \in {"answer", "reject", "end"} /\ fx'.step = "provider"
        /\ fx'.got = "failed")
       => /\ Find(callLogs', fx'.id).status = "completed"
          /\ fx'.save = 1]_vars

\* the records of the registry with a call id and a status
CountAt(logs, i, st) ==
    Cardinality({ k \in 1..Len(logs) : logs[k].id = i /\ logs[k].status = st })

\* the handler that took the step has just called saveCallLog for id i with
\* status st and waits for its UPDATE
SaveIssued(i, st) ==
    \E s \in Slots :
        /\ pending'[s].pc = "update"
        /\ pending'[s].id = i
        /\ pending'[s].data.call_id = i
        /\ pending'[s].data.status = st
        /\ pending'[s] # pending[s]

\* C11: whenever the webhook, answer, reject or end gives a record of the
\* registry the status completed or ended, the same handler calls saveCallLog
\* (UPDATE, else INSERT, by call id) for that call id with that status before
\* it answers.
C11_TerminalIsSaved ==
    [][\A i \in CallIds, st \in Terminal :
          (/\ fx'.h \in {"hook", "answer", "reject", "end"}
           /\ CountAt(callLogs', i, st) > CountAt(callLogs, i, st))
              => /\ fx'.save = 1
                 /\ fx'.http = 0
                 /\ SaveIssued(i, st)]_vars

\* the array server's end has completed a record and waits for its save
C11_Witness ==
    /\ fx.h = "end" /\ fx.step = "provider" /\ fx.got = "ok" /\ fx.save = 1
    /\ Find(callLogs, fx.id).status = "completed"
    /\ \E s \in Slots : pending[s].pc = "update" /\ pending[s].id = fx.id
                          /\ pending[s].data.status = "completed"

\* C12: when the provider command of answer, reject or end succeeds, the
\* record gets the status answering, rejecting or ending, which is not
\* terminal, and the handler calls no saveCallLog.
C12_Intermediate ==
    [][(/\ fx'.h \in {"answer", "reject", "end"} /\ fx'.step = "provider"
        /\ fx'.got = "ok")
       => /\ Find(callLogs', fx'.id).status
               = (CASE fx'.h = "answer" -> "answering"
                    [] fx'.h = "reject" -> "rejecting"
                    [] OTHER -> "ending")
          /\ Find(callLogs', fx'.id).status \notin Terminal
          /\ fx'.save = 0
          /\ \A s \in Slots : pending'[s].pc \notin {"update", "insert"}
                                 \/ pending'[s] = pending[s]
          /\ call_logs' = call_logs]_vars

\* a control request has just been handled for a record that has no control
\* handle
NoHandleRequest ==
    /\ fx'.h \in {"answer", "reject", "end"} /\ fx'.step = "request"
    /\ Find(callLogs, fx'.id) # NoCall
    /\ ~Find(callLogs, fx'.id).controlUrl

\* C13 as stated: answer, reject and end on a record without a control handle
\* fail with an error and send no provider command.
C13_NoHandleFails ==
    [][NoHandleRequest => (fx'.cmd = "none" /\ fx'.http >= 400)]_vars

\* C13 amended: no control action on a record without a control handle sends
\* a provider command; answer and reject fail, with 400 when the record is
\* not inbound or (Map server) not ringing and with 404 otherwise; end fails
\* with 404 on the array server, and on the Map server it answers 403 to a
\* caller who is neither the owner nor an admin, 200 when the record is
\* already terminal, and otherwise completes the record and saves it.
C13_NoHandleNoCommand ==
    [][NoHandleRequest =>
          LET call == Find(callLogs, fx'.id)
              offTrack == \/ call.direction # "inbound"
                          \/ (version = "map" /\ call.status # "ringing")
              stranger == call.user_email # fx'.by /\ ~IsAdmin(CallerOf(fx'.by))
          IN /\ fx'.cmd = "none"
             /\ fx'.h \in {"answer", "reject"}
                  => fx'.http = (IF offTrack THEN 400 ELSE 404)
             /\ (fx'.h = "end" /\ version = "array") => fx'.http = 404
             /\ (fx'.h = "end" /\ version = "map") =>
                  IF stranger THEN fx'.http = 403
                  ELSE IF call.status \in Terminal THEN fx'.http = 200
                  ELSE /\ fx'.http = 0
                       /\ fx'.save = 1
                       /\ Find(callLogs', fx'.id).status = "completed"]_vars

\* an answer or reject was refused for want of a control handle
C13_Witness ==
    /\ fx.h \in {"answer", "reject"} /\ fx.step = "request" /\ fx.http = 404
    /\ fx.cmd = "none"
    /\ Find(callLogs, fx.id) # NoCall
    /\ Find(callLogs, fx.id).direction = "inbound"
    /\ ~Find(callLogs, fx.id).controlUrl

\* C14: an end request on a record whose status is completed or ended is
\* answered 400 and sends no provider command.
C14_EndTerminalRefused ==
    [][(/\ fx'.h = "end" /\ fx'.step = "request"
        /\ Find(callLogs, fx'.id).status \in Terminal)
       => (fx'.http = 400 /\ fx'.cmd = "none")]_vars

\* C15: an end request by a caller who is neither the owner of the record nor
\* an admin is answered 403, sends no provider command, calls no saveCallLog
\* and leaves the registry as it was, whatever the status of the record.
C15_EndForbidden ==
    [][\A u \in Callers :
          (/\ fx'.h = "end" /\ fx'.step = "request" /\ fx'.by = u.email
           /\ Find(callLogs, fx'.id) # NoCall
           /\ Find(callLogs, fx'.id).user_email # u.email
           /\ ~IsAdmin(u))
          => /\ fx'.http = 403
             /\ fx'.cmd = "none"
             /\ fx'.save = 0
             /\ callLogs' = callLogs
             /\ pending' = pending]_vars

\* C16: an answer, reject or end request for a call id that the registry does
\* not hold is answered 404, sends no provider command, calls no saveCallLog
\* and leaves the registry, the suspended handlers and call_logs as they were.
C16_UnknownId ==
    [][(/\ fx'.h \in {"answer", "reject", "end"} /\ fx'.step = "request"
        /\ Find(callLogs, fx'.id) = NoCall)
       => /\ fx'.http = 404
          /\ fx'.cmd = "none"
          /\ fx'.save = 0
          /\ callLogs' = callLogs
          /\ activeCalls' = activeCalls
          /\ pending' = pending
          /\ call_logs' = call_logs]_vars

\* a control request for an id the registry, which is not empty, does not hold
C16_Witness ==
    /\ fx.h \in {"answer", "reject", "end"} /\ fx.step = "request" /\ fx.http = 404
    /\ Find(callLogs, fx.id) = NoCall
    /\ Len(callLogs) > 0

\* C17: GET /api/calls/:id answers 404 when no record has the id, 403 when the
\* record exists and the caller is neither its owner nor an admin, and the
\* record (200) only to its owner or an admin.
C17_ReadGuarded ==
    \A u \in Callers, id \in CallIds :
        LET call == Find(callLogs, id)
        IN ReadCall(u, id) = IF call = NoCall THEN 404
                             ELSE IF call.user_email = u.email \/ IsAdmin(u) THEN 200
                             ELSE 403

\* C18: a webhook handler that has read a call or an event from its payload
\* ends by answering 200, also when saveCallLog or saveSubscriptionToDb failed.
C18_WebhookAnswers ==
    [][(/\ fx'.h \in {"hook", "stripe", "checkout"}
        /\ fx'.id # NoId
        /\ fx'.step # "request"
        /\ (fx'.http # 0 \/ fx'.step = "threw"))
       => fx'.http = 200]_vars

\* C19: POST /api/calls/start without a phoneNumber is answered 400,
\* sends no place-call command and leaves the registry as it was.
C19_StartNeedsNumber ==
    [][(fx'.h = "start" /\ fx'.step = "request" /\ fx'.got = Body(FALSE))
       => /\ fx'.http = 400
          /\ fx'.cmd = "none"
          /\ callLogs' = callLogs
          /\ pending' = pending]_vars

\* the sequence without its k-th element
Without(logs, k) == SubSeq(logs, 1, k - 1) \o SubSeq(logs, k + 1, Len(logs))

\* C20: every step that changes the registry (a record created by start or
\* the webhook, replaced by the webhook, given an intermediate status by
\* answer, reject or end, or completed) broadcasts one callUpdate whose
\* payload is the record as the registry now holds it, and that record is
\* the only change of the registry (the registry of a process that has ended
\* is not a mutation).
C20_MutationBroadcast ==
    [][(callLogs' # callLogs /\ up') =>
          /\ fx'.emit = 1
          /\ \E k \in 1..Len(callLogs') :
                /\ callLogs'[k] = fx'.sent
                /\ IF Len(callLogs') = Len(callLogs)
                   THEN \A j \in 1..Len(callLogs) : j # k => callLogs'[j] = callLogs[j]
                   ELSE callLogs = Without(callLogs', k)]_vars

\* the Map server has broadcast the record it has just set to ending
C20_Witness ==
    /\ version = "map"
    /\ fx.h = "end" /\ fx.step = "provider" /\ fx.emit = 1
    /\ fx.sent.status = "ending"
    /\ Find(callLogs, fx.id) = fx.sent

\* C21: after every handler step that creates a record or changes the status
\* of one, activeCalls (the count last broadcast, and the one a new socket is
\* sent) is the number of records of the registry whose status is ongoing.
C21_CountMatches ==
    [][callLogs' # callLogs => activeCalls' = CountOngoing(callLogs')]_vars

\* C22: a delivery of a checkout event whose event id saveSubscriptionToDb had
\* already stored when it arrived leaves the subscriptions table as it is,
\* whatever events were stored for the same email in between.
C22_LateDeliverySuppressed ==
    [][\A s \in Slots :
          (pending[s].kind = "checkout" /\ pending[s].late /\ pending'[s] # pending[s])
              => subscriptions' = subscriptions]_vars

\* C23: the subscriptions table holds at most one row per email, however the
\* Stripe webhook deliveries and the add-subscription requests interleave.
C23_OneRowPerEmail ==
    \A email \in Emails : Cardinality(ByEmail(subscriptions, email)) <= 1

\* C24: when the provider rejects the place-call command of a start, the
\* request is answered 500, the registry and the count are left as they were,
\* nothing is broadcast and nothing is saved.
C24_StartRejected ==
    [][(fx'.h = "start" /\ fx'.step = "provider" /\ fx'.got = "failed")
       => /\ fx'.http = 500
          /\ callLogs' = callLogs
          /\ activeCalls' = activeCalls
          /\ fx'.emit = 0
          /\ fx'.save = 0
          /\ call_logs' = call_logs]_vars

\* a rejected start, with a record of an earlier call in the registry
C24_Witness ==
    /\ fx.h = "start" /\ fx.step = "provider" /\ fx.got = "failed" /\ fx.http = 500
    /\ Len(callLogs) = 1

\* C25: once a start has given the record of a call id its owner, no webhook
\* event for that id changes the record's user_email.
C25_OwnerKept ==
    [][\A i \in CallIds :
          (/\ fx'.h = "hook"
           /\ \E u \in Callers : Find(callLogs, i).user_email = u.email
           /\ Find(callLogs', i) # NoCall)
              => Find(callLogs', i).user_email = Find(callLogs, i).user_email]_vars

\* C26: no step gives a record whose status is completed or ended one of the
\* intermediate statuses answering, rejecting or ending: an action that was
\* suspended at its provider command while the record became terminal does
\* not overwrite the terminal status when it resumes.
C26_TerminalStays ==
    [][\A i \in CallIds :
          (Find(callLogs, i).status \in Terminal /\ Find(callLogs', i) # NoCall)
              => Find(callLogs', i).status \notin {"answering", "rejecting", "ending"}]_vars

\* C27: call_logs holds at most one row per call id, also when two saveCallLog
\* calls for the same id have both run their UPDATE before either runs its
\* INSERT.
C27_OneRowPerCall ==
    \A i \in CallIds : Cardinality(Rows(i)) <= 1

\* C28: an end request by the owner or an admin on a record whose status is
\* completed or ended sends no provider command, calls no saveCallLog,
\* broadcasts nothing and leaves the registry as it was, so that repeating it
\* changes nothing.
C28_EndTerminalNoEffect ==
    [][\A u \in Callers :
          (/\ fx'.h = "end" /\ fx'.step = "request" /\ fx'.by = u.email
           /\ Find(callLogs, fx'.id).status \in Terminal
           /\ (Find(callLogs, fx'.id).user_email = u.email \/ IsAdmin(u)))
          => /\ fx'.cmd = "none"
             /\ fx'.save = 0
             /\ fx'.emit = 0
             /\ callLogs' = callLogs
             /\ activeCalls' = activeCalls
             /\ pending' = pending]_vars

\* C29: an answer or reject request on a record whose direction is not
\* inbound is answered 400, sends no provider command and leaves the registry
\* and the suspended handlers as they were, whatever the status and the
\* control handle of the record.
C29_NotInbound ==
    [][(/\ fx'.h \in {"answer", "reject"} /\ fx'.step = "request"
        /\ Find(callLogs, fx'.id) # NoCall
        /\ Find(callLogs, fx'.id).direction # "inbound")
       => /\ fx'.http = 400
          /\ fx'.cmd = "none"
          /\ callLogs' = callLogs
          /\ activeCalls' = activeCalls
          /\ pending' = pending]_vars

\* refused on an outbound record that is ringing and has a control handle:
\* the direction alone decided
C29_Witness ==
    /\ fx.h \in {"answer", "reject"} /\ fx.step = "request" /\ fx.http = 400
    /\ Find(callLogs, fx.id).direction = "outbound"
    /\ Find(callLogs, fx.id).status = "ringing"
    /\ Find(callLogs, fx.id).controlUrl

\* the handlers that are waiting at an await
Busy(pend) == { s \in Slots : pend[s].kind # "idle" }

\* the step just taken was the last one of a call handler's invocation: a
\* request handled without waiting, or a return after which the handler waits
\* for nothing more
InvocationEnded ==
    /\ fx'.h \in {"start", "answer", "reject", "end", "hook"}
    /\ \/ Cardinality(Busy(pending')) < Cardinality(Busy(pending))
       \/ /\ fx'.step \in {"request", "threw"}
          /\ Cardinality(Busy(pending')) = Cardinality(Busy(pending))

\* C30: every invocation of start, answer, reject, end or the voice webhook
\* ends with an HTTP response, on every path (the provider calls and the
\* queries it waits for all return, with success or failure).
C30_AlwaysResponds ==
    [][InvocationEnded => fx'.http # 0]_vars

====
